---- MODULE Spec2Model ----
(***************************************************************************)
(* Model of the a0-marketplace ink! contract (src/marketplace/lib.rs) and  *)
(* of the risc0 host program (src/risc0/host/src/main.rs).                 *)
(*                                                                         *)
(* The contract storage is the five fields of struct Marketplace.  Every   *)
(* entry point is one action.  A call that panics (unimplemented!(),       *)
(* expect) traps: nothing it did is committed, neither storage nor events. *)
(* `last` is the record of the most recent call: its number, arguments and *)
(* result, the storage it ran against (`seen`), the events it emitted      *)
(* while it ran and the working copies it assigned, so that what a handler *)
(* computed before it trapped stays visible.                               *)
(*                                                                         *)
(* Asset.name and Asset.description are never read or written by any       *)
(* handler and are left out of the asset records.                          *)
(***************************************************************************)
EXTENDS Integers, Sequences, FiniteSets, TLC

\* ------------------------------------------------------------------ bounds
MaxCalls == 3
MaxAssets == 1

\* ------------------------------------------------------- program constants
InitAssetId == 10
InitPrize == 0
OnGoingPrize == 0
DigestWords == 8

\* ------------------------------------------------------------ input domains
Hashes == {"h1", "h2"}
Accounts == {"alice", "bob"}
Prices == {0, 100}
EncryptedChanges == {<<7>>}
ProofWords == {<<0, 0, 0, 0, 0, 0, 0, 0>>, <<1, 2, 3, 4, 5, 6, 7, 8>>}
MethodCodes == {"absent", "malformed", "reputation_elf", "other_elf"}

AssetValues ==
    {[id |-> 1, account_owner |-> "alice", purchasable |-> p] : p \in BOOLEAN}
    \cup {[id |-> 2, account_owner |-> "bob", purchasable |-> p] : p \in BOOLEAN}

RECURSIVE SeqsUpTo(_, _)
SeqsUpTo(S, n) ==
    IF n = 0 THEN {<<>>}
    ELSE LET shorter == SeqsUpTo(S, n - 1)
         IN  shorter \cup {Append(s, x) : s \in {t \in shorter : Len(t) = n - 1}, x \in S}

\* ------------------------------------------------------------------- state
VARIABLES users, assets, current_sale, spent_nullifier, commitments, events, last

vars == <<users, assets, current_sale, spent_nullifier, commitments, events, last>>

storage == <<users, assets, current_sale, spent_nullifier, commitments>>

\* ------------------------------------------------------------ pure helpers
\* Digest::from([u32; 8]): wraps the eight 32-bit words, unchanged and in order.
Digest_from(words) == [words |-> [i \in 1..DigestWords |-> words[i]]]

Digests == {Digest_from(w) : w \in ProofWords}

ClosedSale == [status |-> "Closed", prize |-> InitPrize, asset_id |-> InitAssetId]

OngoingSale(asset) == [status |-> "OnGoing", prize |-> OnGoingPrize, asset_id |-> asset.id]

ItemOnsale(account) == [name |-> "ItemOnsale", seller_id |-> account]

ItemBought(account) == [name |-> "ItemBought", seller_id |-> account]

\* The storage a call runs against, kept in the call's record.
Seen == [sale |-> current_sale, commitments |-> commitments,
         spent |-> DOMAIN spent_nullifier, assets |-> assets, users |-> users,
         events |-> events]

NoCall == [op |-> "none", seq |-> 0, result |-> "Ok", emitted |-> <<>>]

\* ------------------------------------------------------------- constructor
\* new(assets_list, users_list): users_list is dropped, users starts empty.
Init ==
    /\ \E assets_list \in SeqsUpTo(AssetValues, MaxAssets) : assets = assets_list
    /\ users = <<>>
    /\ current_sale = ClosedSale
    /\ commitments = {}
    /\ spent_nullifier = [h \in {} |-> TRUE]
    /\ events = <<>>
    /\ last = NoCall

\* ---------------------------------------------------------------- handlers
\* An insert that drops a key it finds already present.
commitments_insert_toggling(set, new_hash) ==
    IF new_hash \in set THEN set \ {new_hash} ELSE set \cup {new_hash}

\* An insert that overwrites the set with the new key.
commitments_insert_overwriting(set, new_hash) == {new_hash}

\* BTreeSet::insert: adds the key, a key already present stays once.
commitments_insert(set, new_hash) == set \cup {new_hash}

\* A registration that announces itself with an event.
register_seller_emitted_announcing(new_hash) ==
    <<[name |-> "SellerRegistered", hash |-> new_hash]>>

\* The events register_seller emits: it calls emit_event nowhere.
register_seller_emitted(new_hash) == <<>>

register_seller(new_hash) ==
    /\ last.seq < MaxCalls
    /\ commitments' = commitments_insert(commitments, new_hash)
    /\ events' = events \o register_seller_emitted(new_hash)
    /\ last' = [op |-> "register_seller", seq |-> last.seq + 1, hash |-> new_hash,
                seen |-> Seen, result |-> "Ok",
                emitted |-> register_seller_emitted(new_hash)]
    /\ UNCHANGED <<users, assets, current_sale, spent_nullifier>>

\* The body of put_asset_on_sale on its own copies: `self` and `asset` are
\* taken by value.  Yields the copies as they are when unimplemented!() is hit.
put_asset_on_sale_body(self_sale, asset, account) ==
    [sale    |-> IF ~asset.purchasable THEN OngoingSale(asset) ELSE self_sale,
     asset   |-> IF ~asset.purchasable THEN [asset EXCEPT !.purchasable = TRUE] ELSE asset,
     emitted |-> <<ItemOnsale(account)>>,
     result  |-> "Panic"]

\* A receiver that writes its copy of the sale back to storage.
put_asset_on_sale_written_back(before, body) == body.sale

\* What the contract storage holds once the call is over: the handler owns a
\* moved copy of the contract and traps, so the stored sale is the one before.
put_asset_on_sale_stored(before, body) == before

put_asset_on_sale(asset, zk_proof, account) ==
    /\ last.seq < MaxCalls
    /\ LET body == put_asset_on_sale_body(current_sale, asset, account)
       IN  /\ current_sale' = put_asset_on_sale_stored(current_sale, body)
           /\ events' = IF body.result = "Ok" THEN events \o body.emitted ELSE events
           /\ last' = [op |-> "put_asset_on_sale", seq |-> last.seq + 1, asset |-> asset,
                       proof |-> zk_proof, account |-> account, seen |-> Seen,
                       result |-> body.result, emitted |-> body.emitted,
                       sale |-> body.sale, asset_after |-> body.asset]
    /\ UNCHANGED <<users, assets, spent_nullifier, commitments>>

\* What buy_asset runs: it only emits ItemBought with the account it was given.
buy_asset_emitted(asset, account, price) == <<ItemBought(account)>>

\* A purchase that hands the stored asset to the buyer and touches no sale.
buy_asset_assets_transferring(stored, asset, account) ==
    [i \in DOMAIN stored |->
        IF stored[i].id = asset.id
        THEN [stored[i] EXCEPT !.account_owner = account]
        ELSE stored[i]]

\* The stored assets after buy_asset: the transfer is a comment, they stay.
buy_asset_assets(stored, asset, account) == stored

buy_asset(asset, account, price) ==
    /\ last.seq < MaxCalls
    /\ assets' = buy_asset_assets(assets, asset, account)
    /\ events' = events \o buy_asset_emitted(asset, account, price)
    /\ last' = [op |-> "buy_asset", seq |-> last.seq + 1, asset |-> asset,
                account |-> account, price |-> price, seen |-> Seen, result |-> "Ok",
                emitted |-> buy_asset_emitted(asset, account, price)]
    /\ UNCHANGED <<users, current_sale, spent_nullifier, commitments>>

give_seller_review(seller, encrypted_change) ==
    /\ last.seq < MaxCalls
    /\ events' = Append(events, ItemBought(seller))
    /\ last' = [op |-> "give_seller_review", seq |-> last.seq + 1, account |-> seller,
                payload |-> encrypted_change, seen |-> Seen, result |-> "Ok",
                emitted |-> <<ItemBought(seller)>>]
    /\ UNCHANGED storage

\* &self receiver: converts the proof words to a Digest, then unimplemented!().
update_seller_reputation(hash, review_proof) ==
    /\ last.seq < MaxCalls
    /\ last' = [op |-> "update_seller_reputation", seq |-> last.seq + 1, hash |-> hash,
                proof |-> Digest_from(review_proof), seen |-> Seen,
                result |-> "Panic", emitted |-> <<>>]
    /\ UNCHANGED <<storage, events>>

\* ------------------------------------------------------------ host program
\* receipt.verify(REPUTATION_ID): accepts a receipt made for that method only.
ReceiptVerify(receipt, method_id) == receipt.method_id = method_id

\* main(): read the method code, build the prover, run it, verify the receipt.
\* Every step is an expect(): a failure panics.
main_result(method_code, run_ok) ==
    IF method_code = "absent" THEN "Panic"
    ELSE IF method_code = "malformed" THEN "Panic"
    ELSE IF ~run_ok THEN "Panic"
    ELSE LET receipt == [method_id |-> IF method_code = "reputation_elf"
                                       THEN "REPUTATION_ID" ELSE "OTHER_ID"]
         IN  IF ReceiptVerify(receipt, "REPUTATION_ID") THEN "Ok" ELSE "Panic"

main(method_code, run_ok) ==
    /\ last.seq < MaxCalls
    /\ last' = [op |-> "main", seq |-> last.seq + 1, code |-> method_code,
                run_ok |-> run_ok, seen |-> Seen,
                result |-> main_result(method_code, run_ok), emitted |-> <<>>]
    /\ UNCHANGED <<storage, events>>

\* -------------------------------------------------------------------- spec
Next ==
    \/ \E h \in Hashes : register_seller(h)
    \/ \E a \in AssetValues, z \in Digests, acc \in Accounts : put_asset_on_sale(a, z, acc)
    \/ \E a \in AssetValues, acc \in Accounts, p \in Prices : buy_asset(a, acc, p)
    \/ \E s \in Accounts, e \in EncryptedChanges : give_seller_review(s, e)
    \/ \E h \in Hashes, w \in ProofWords : update_seller_reputation(h, w)
    \/ \E c \in MethodCodes, ok \in BOOLEAN : main(c, ok)

Spec == Init /\ [][Next]_vars

TypeOK ==
    /\ users = <<>>
    /\ assets \in SeqsUpTo(AssetValues, MaxAssets)
    /\ commitments \subseteq Hashes
    /\ last.seq <= MaxCalls

\* ================================================================== claims
\* Vocabulary of the claims.  list_asset is put_asset_on_sale in the source,
\* submit_reputation_proof is update_seller_reputation.
Listing(c) == c.op = "put_asset_on_sale"

Reputation(c) == c.op = "update_seller_reputation"

Purchase(c) == c.op = "buy_asset"

\* The guards of a listing, taken on the storage the call ran against: the
\* asset is not on sale, no sale is running, a seller commitment has been
\* registered and no nullifier has been spent (so the call's own is fresh).
\* The contract never inspects the proof it is given, so a statement made
\* with these guards is made for every proof, the accepted ones included.
ListingGuardsHeld(c) ==
    /\ Listing(c)
    /\ ~c.asset.purchasable
    /\ c.seen.sale.status = "Closed"
    /\ c.seen.commitments # {}
    /\ c.seen.spent = {}

StoredAsset(id) == \E i \in DOMAIN assets : assets[i].id = id

\* C1: replay rejection.  Once a listing has gone through with nullifier n,
\* n is in the Nullifier Set, and the same listing presented again (same
\* proof, hence same nullifier) is rejected with NullifierSpent.
C1_ReplayRejected ==
    [][(/\ ListingGuardsHeld(last)
        /\ Listing(last')
        /\ last'.seq = last.seq + 1
        /\ last'.proof = last.proof
        /\ last'.asset = last.asset
        /\ last'.account = last.account)
       => (/\ DOMAIN spent_nullifier # {}
           /\ last'.result = "NullifierSpent")]_vars

\* C2: atomicity of a failed listing.  A listing that does not complete, or
\* that fails a guard (the asset is already purchasable, no commitment is
\* registered, a sale is OnGoing, or a nullifier is already spent), leaves
\* the stored Sale, the stored assets' purchasable flags and the Nullifier
\* Set as they were.
C2_FailedListingChangesNothing ==
    [][(/\ Listing(last')
        /\ last'.seq = last.seq + 1
        /\ \/ last'.result # "Ok"
           \/ last'.asset.purchasable
           \/ commitments = {}
           \/ current_sale.status = "OnGoing"
           \/ DOMAIN spent_nullifier # {})
       => (/\ current_sale' = current_sale
           /\ assets' = assets
           /\ spent_nullifier' = spent_nullifier)]_vars

\* A listing of an asset that is not purchasable, made while no commitment is
\* registered, has run: its own copy of the sale went OnGoing, storage did not.
C2_Witness ==
    /\ Listing(last)
    /\ ~last.asset.purchasable
    /\ last.seen.commitments = {}
    /\ last.sale.status = "OnGoing"

\* C3: listing while a sale is active.  After a listing that passed its
\* guards (the sale is then OnGoing), a listing of another asset with another
\* proof is rejected with InvalidSaleTransition and leaves the Sale as it is.
C3_SecondListingRejected ==
    [][(/\ ListingGuardsHeld(last)
        /\ Listing(last')
        /\ last'.seq = last.seq + 1
        /\ last'.asset.id # last.asset.id
        /\ ~last'.asset.purchasable
        /\ last'.proof # last.proof)
       => (/\ current_sale.status = "OnGoing"
           /\ last'.result = "InvalidSaleTransition"
           /\ current_sale' = current_sale)]_vars

\* C4: single active sale.  At most one stored asset is purchasable, and only
\* while the Sale is OnGoing for that asset.
C4_SingleActiveSale ==
    /\ Cardinality({i \in DOMAIN assets : assets[i].purchasable}) <= 1
    /\ \A i \in DOMAIN assets :
          assets[i].purchasable =>
              /\ current_sale.status = "OnGoing"
              /\ current_sale.asset_id = assets[i].id

\* C5: successful listing.  A listing of a stored asset whose guards all hold
\* completes, and afterwards the stored asset is purchasable, the Sale is
\* OnGoing for that asset and ItemOnSale{seller} is in the event log.
C5_ListingSucceeds ==
    (ListingGuardsHeld(last) /\ StoredAsset(last.asset.id))
    => (/\ last.result = "Ok"
        /\ current_sale.status = "OnGoing"
        /\ current_sale.asset_id = last.asset.id
        /\ \A i \in DOMAIN assets : assets[i].id = last.asset.id => assets[i].purchasable
        /\ \E k \in DOMAIN events : events[k] = ItemOnsale(last.account))

\* C6: successful purchase.  After a listing that passed its guards, a
\* purchase of that asset at the sale's price hands the asset to the buyer,
\* closes the Sale, clears the purchasable flag and emits ItemBought{buyer}
\* once.
C6_PurchaseTransfers ==
    [][(/\ ListingGuardsHeld(last)
        /\ StoredAsset(last.asset.id)
        /\ Purchase(last')
        /\ last'.seq = last.seq + 1
        /\ last'.asset.id = last.asset.id
        /\ last'.price = last.sale.prize)
       => (/\ current_sale'.status = "Closed"
           /\ \A i \in DOMAIN assets' :
                 assets'[i].id = last'.asset.id =>
                     /\ assets'[i].account_owner = last'.account
                     /\ ~assets'[i].purchasable
           /\ last'.emitted = <<ItemBought(last'.account)>>)]_vars

\* C7: purchase guards.  A purchase made while the Sale is not OnGoing, or
\* for another asset than the Sale's, or at another price than the Sale's, is
\* rejected with a typed error and emits no ItemBought.
C7_PurchaseGuards ==
    (/\ Purchase(last)
     /\ \/ last.seen.sale.status # "OnGoing"
        \/ last.seen.sale.asset_id # last.asset.id
        \/ last.seen.sale.prize # last.price)
    => (/\ last.result \in {"InvalidSaleTransition", "PriceMismatch", "InsufficientFunds"}
        /\ last.emitted = <<>>
        /\ current_sale = last.seen.sale
        /\ assets = last.seen.assets)

\* C8: registration gates listing.  A listing made while no commitment at all
\* is registered is rejected with NotRegistered and does not take the Sale to
\* OnGoing, not even in the handler's own copy.
C8_UnregisteredListingRejected ==
    (Listing(last) /\ last.seen.commitments = {})
    => (/\ last.result = "NotRegistered"
        /\ last.sale = last.seen.sale
        /\ current_sale.status # "OnGoing")

\* C9: proof gating and context binding.  One proof presented to the listing
\* and then to the reputation update is valid for at most one of the two
\* computations, so at least one of the two calls is rejected with
\* InvalidProof; a call rejected so changes nothing and spends no nullifier.
C9_ProofBoundToContext ==
    [][(/\ Listing(last)
        /\ Reputation(last')
        /\ last'.seq = last.seq + 1
        /\ last'.proof = last.proof)
       => (/\ last.result = "InvalidProof" \/ last'.result = "InvalidProof"
           /\ last'.result = "InvalidProof" => UNCHANGED <<storage, events>>)]_vars

\* C10: the nullifier set is shared across operation kinds.  When a
\* reputation update follows a listing that passed its guards, the listing's
\* nullifier is in the Nullifier Set, and an update that presents a spent
\* nullifier is rejected with NullifierSpent, every reputation unchanged.
C10_NullifierSharedAcrossKinds ==
    [][(/\ ListingGuardsHeld(last)
        /\ Reputation(last')
        /\ last'.seq = last.seq + 1)
       => (/\ DOMAIN spent_nullifier # {}
           /\ last'.hash \in DOMAIN spent_nullifier => last'.result = "NullifierSpent"
           /\ users' = users)]_vars

Registration(c) == c.op = "register_seller"

Review(c) == c.op = "give_seller_review"

\* The next call has been made (a step of the contract or of the host).
NextCall == last'.seq = last.seq + 1

TypedRejections ==
    {"InvalidProof", "NullifierSpent", "NotRegistered", "InvalidSaleTransition",
     "InsufficientFunds", "PriceMismatch"}

Owners(stored) == [i \in DOMAIN stored |-> stored[i].account_owner]

ItemBoughtCount(log) == Cardinality({k \in DOMAIN log : log[k].name = "ItemBought"})

\* C12: registration idempotence.  Registering a commitment that is already
\* in the Commitment Set succeeds and leaves the set, and its size, as they
\* were: two registrations give the set that one gives.
C12_RegistrationIdempotent ==
    [][(/\ Registration(last')
        /\ NextCall
        /\ last'.hash \in commitments)
       => (/\ commitments' = commitments
           /\ Cardinality(commitments') = Cardinality(commitments)
           /\ last'.result = "Ok")]_vars

\* A commitment has been registered a second time.
C12_Witness ==
    /\ Registration(last)
    /\ last.hash \in last.seen.commitments
    /\ last.result = "Ok"

\* C13: the Commitment Set is append-only.  No step removes a commitment, and
\* a commitment is in the set right after its registration, so it is in the
\* set in every later state.
C13_CommitmentsAppendOnly ==
    [][/\ commitments \subseteq commitments'
       /\ (Registration(last') /\ NextCall) => last'.hash \in commitments']_vars

\* Both commitments are registered: the first one outlived the second
\* registration.
C13_Witness ==
    /\ commitments = Hashes
    /\ last.seq >= 2

\* C14: ownership transfer is atomic with sale closure.  The owner of a stored
\* asset changes only in a purchase that completes, in the step that takes
\* the Sale from OnGoing to Closed; no other step changes an owner.
C14_OwnerChangesOnlyWithClosure ==
    [][Owners(assets') # Owners(assets)
       => (/\ Purchase(last')
           /\ NextCall
           /\ last'.result = "Ok"
           /\ current_sale.status = "OnGoing"
           /\ current_sale'.status = "Closed")]_vars

\* A purchase of a stored asset by another account than its owner has run
\* while the Sale was not OnGoing, and the owner is who it was.
C14_Witness ==
    /\ Purchase(last)
    /\ last.seen.sale.status # "OnGoing"
    /\ \E i \in DOMAIN assets :
          /\ assets[i].id = last.asset.id
          /\ assets[i].account_owner # last.account
          /\ assets[i].account_owner = last.seen.assets[i].account_owner

\* C16: every public operation of the contract runs to completion and returns
\* success or a typed rejection; none aborts or panics.
C16_OperationsReturnTyped ==
    last.op \in {"register_seller", "put_asset_on_sale", "buy_asset",
                 "update_seller_reputation", "give_seller_review"}
    => last.result \in {"Ok"} \cup TypedRejections

\* C17: register_seller succeeds, emits no event and changes nothing but the
\* Commitment Set: Sale, Nullifier Set, assets, users and the event log stay.
C17_RegistrationFrame ==
    [][(Registration(last') /\ NextCall)
       => (/\ last'.result = "Ok"
           /\ last'.emitted = <<>>
           /\ events' = events
           /\ current_sale' = current_sale
           /\ spent_nullifier' = spent_nullifier
           /\ assets' = assets
           /\ users' = users)]_vars

\* A registration has run on a contract that had events in its log.
C17_Witness ==
    /\ Registration(last)
    /\ last.seen.events # <<>>
    /\ last.hash \in commitments

\* The edges of the sale lifecycle, and staying put.
SaleEdge(from, to) ==
    \/ to = from
    \/ from.status = "Closed" /\ to.status = "OnGoing"
    \/ from.status = "OnGoing" /\ to.status = "Closed"
    \/ from.status = "OnGoing" /\ to.status = "Cancelled"
    \/ from.status = "Cancelled" /\ to.status = "Closed"

\* C18: sale lifecycle.  Right after construction the Sale is Closed and the
\* Commitment and Nullifier sets are empty; the status is always Closed,
\* OnGoing or Cancelled; the Sale, stored or in a listing's own copy, moves
\* only along Closed -> OnGoing, OnGoing -> Closed, OnGoing -> Cancelled ->
\* Closed; registrations, reputation updates, reviews and every call that does
\* not complete leave the stored Sale as it is.
C18_SaleLifecycle ==
    /\ [](last.seq = 0 =>
            /\ current_sale.status = "Closed"
            /\ commitments = {}
            /\ DOMAIN spent_nullifier = {})
    /\ [](/\ current_sale.status \in {"Closed", "OnGoing", "Cancelled"}
          /\ Listing(last) =>
                /\ last.sale.status \in {"Closed", "OnGoing", "Cancelled"}
                /\ SaleEdge(last.seen.sale, last.sale))
    /\ [][/\ SaleEdge(current_sale, current_sale')
          /\ (/\ NextCall
              /\ \/ Registration(last')
                 \/ Reputation(last')
                 \/ Review(last')
                 \/ last'.result # "Ok")
             => current_sale' = current_sale]_vars

\* A listing whose guards held has run: its own copy of the Sale took the edge
\* Closed -> OnGoing, and the call did not complete, so the stored Sale stays.
C18_Witness ==
    /\ ListingGuardsHeld(last)
    /\ last.sale.status = "OnGoing"
    /\ last.result # "Ok"
    /\ current_sale.status = "Closed"

\* C19: ItemOnSale is emitted only by a listing that passed every guard, once,
\* in the step that sets the Sale to OnGoing; a listing rejected because the
\* asset is already purchasable emits no ItemOnSale.
C19_ItemOnSaleOnlyOnSuccess ==
    /\ (Listing(last) /\ last.asset.purchasable) => last.emitted = <<>>
    /\ ListingGuardsHeld(last) =>
          /\ last.emitted = <<ItemOnsale(last.account)>>
          /\ events = last.seen.events \o last.emitted
          /\ current_sale.status = "OnGoing"

\* C20: ItemBought is emitted only by a purchase that completes: the log gains
\* one ItemBought in a step that takes the Sale from OnGoing to Closed and none
\* in any other step, and a review emits no ItemBought and changes neither the
\* storage nor the log.
C20_ItemBoughtOnlyOnPurchase ==
    [][/\ ItemBoughtCount(events') =
              ItemBoughtCount(events)
              + (IF /\ Purchase(last')
                    /\ current_sale.status = "OnGoing"
                    /\ current_sale'.status = "Closed"
                 THEN 1 ELSE 0)
       /\ (Review(last') /\ NextCall) =>
              /\ \A k \in DOMAIN last'.emitted : last'.emitted[k].name # "ItemBought"
              /\ UNCHANGED <<storage, events>>]_vars
====
